---------------------------- MODULE Spec2Model ----------------------------
(***************************************************************************)
(* Model of libsolidity/InterfaceHandler.cpp: the NatSpec tag parser held  *)
(* on one reusable InterfaceHandler instance, the user and developer       *)
(* documentation builders that drive it, and the ABI builder.              *)
(*                                                                         *)
(* A string is a sequence of one-character strings; a position is a        *)
(* 1-based index into it and End(s) = Len(s)+1 stands for s.end().  An     *)
(* optional value (a possibly null pointer, an optional JSON member) is a  *)
(* sequence of length 0 or 1.                                              *)
(***************************************************************************)
EXTENDS Integers, Sequences, FiniteSets, TLC

VARIABLES
    contract,   \* the ContractDefinition handed to documentation()
    handler,    \* the InterfaceHandler object: m_lastTag and the buffers
    pc,         \* position of the running documentation() call
    type,       \* DocumentationType of the running (or last) call
    it,         \* index of the interface function the loop is at
    str,        \* parseDocString: _string
    owner,      \* parseDocString: _owner
    currPos,    \* parseDocString: currPos
    doc,        \* the JSON value under construction
    result      \* what the last documentation() call returned or threw;
                \* NoResult while a call is running

vars == <<contract, handler, pc, type, it, str, owner, currPos, doc, result>>

(***************************************************************************)
(* Bounds of the model.                                                    *)
(***************************************************************************)
MaxFunctions == 2   \* interface functions per documented contract
MaxEvents == 2      \* interface events per contract
MaxTokens == 4       \* pieces of a comment handed to parseDocString alone
MaxBuf == 9         \* longest buffer (characters, or pairs) that is followed

(***************************************************************************)
(* Characters and the tag names.                                           *)
(***************************************************************************)
NL == "\n"
SP == " "
AT == "@"

tagDev    == <<"d", "e", "v">>
tagNotice == <<"n", "o", "t", "i", "c", "e">>
tagReturn == <<"r", "e", "t", "u", "r", "n">>
tagAuthor == <<"a", "u", "t", "h", "o", "r">>
tagTitle  == <<"t", "i", "t", "l", "e">>
tagParam  == <<"p", "a", "r", "a", "m">>

DocTagType == {"None", "Dev", "Notice", "Param", "Return", "Author", "Title"}
CommentOwner == {"Contract", "Function"}

ErrorKinds == {"MalformedTag", "UnknownTag", "IllegalTagForContext",
               "ParamNameMismatch", "InternalInvariantViolation"}

(***************************************************************************)
(* String helpers: std::find over [from, s.end()).                         *)
(***************************************************************************)
End(s) == Len(s) + 1

RECURSIVE Find(_, _, _)
Find(s, from, ch) ==
    IF from >= End(s) THEN End(s)
    ELSE IF s[from] = ch THEN from
    ELSE Find(s, from + 1, ch)

\* string(first, last): the characters of [first, last)
Sub(s, first, last) == SubSeq(s, first, last - 1)

\* skipLineOrEOS that stops at the line break
skipLineOrEOSAtBreak(s, nlPos) == nlPos

skipLineOrEOS(s, nlPos) == IF nlPos = End(s) THEN End(s) ELSE nlPos + 1

firstSpaceOrNl(s, pos) ==
    LET spacePos == Find(s, pos, SP)
        nlPos == Find(s, pos, NL)
    IN  IF spacePos < nlPos THEN spacePos ELSE nlPos

(***************************************************************************)
(* The handler object.                                                     *)
(***************************************************************************)
NewHandler ==
    [m_lastTag |-> "None",
     m_notice |-> <<>>, m_dev |-> <<>>, m_return |-> <<>>,
     m_author |-> <<>>, m_contractAuthor |-> <<>>, m_title |-> <<>>,
     m_params |-> <<>>]

\* resetUser that also forgets the last tag
resetUserClearsTag(h) == [h EXCEPT !.m_notice = <<>>, !.m_lastTag = "None"]

resetUser(h) == [h EXCEPT !.m_notice = <<>>]

\* resetDev that forgets to clear m_return
resetDevKeepsReturn(h) ==
    [h EXCEPT !.m_dev = <<>>, !.m_author = <<>>, !.m_params = <<>>]

resetDev(h) ==
    [h EXCEPT !.m_dev = <<>>, !.m_author = <<>>, !.m_return = <<>>,
              !.m_params = <<>>]

\* A step of the parser: the handler after it, the cursor it returns, and
\* "ok" or the kind of the exception it throws (the handler is then the
\* object as the exception leaves it).
Step(h, pos, status) == [h |-> h, pos |-> pos, status |-> status]

\* parseDocTagLine that never inserts the separating space
parseDocTagLineNoSpace(h, s, pos, field, tagType, appending) ==
    LET nlPos == Find(s, pos, NL)
        h1 == [h EXCEPT ![field] = @ \o Sub(s, pos, nlPos),
                        !.m_lastTag = tagType]
    IN  Step(h1, skipLineOrEOS(s, nlPos), "ok")

parseDocTagLine(h, s, pos, field, tagType, appending) ==
    LET nlPos == Find(s, pos, NL)
        sep == IF appending /\ pos < End(s) /\ s[pos] # SP THEN <<SP>> ELSE <<>>
        h1 == [h EXCEPT ![field] = @ \o sep \o Sub(s, pos, nlPos),
                        !.m_lastTag = tagType]
    IN  Step(h1, skipLineOrEOS(s, nlPos), "ok")

\* parseDocTagParam that leaves m_lastTag as it was
parseDocTagParamKeepsTag(h, s, pos) ==
    LET spacePos == Find(s, pos, SP)
        paramName == Sub(s, pos, spacePos)
        nlPos == Find(s, spacePos + 1, NL)
        paramDesc == Sub(s, spacePos + 1, nlPos)
        h1 == [h EXCEPT !.m_params = Append(@, <<paramName, paramDesc>>)]
    IN  IF spacePos = End(s)
        THEN Step(h, pos, "MalformedTag")
        ELSE Step(h1, skipLineOrEOS(s, nlPos), "ok")

parseDocTagParam(h, s, pos) ==
    LET spacePos == Find(s, pos, SP)
        paramName == Sub(s, pos, spacePos)
        nlPos == Find(s, spacePos + 1, NL)
        paramDesc == Sub(s, spacePos + 1, nlPos)
        h1 == [h EXCEPT !.m_params = Append(@, <<paramName, paramDesc>>),
                        !.m_lastTag = "Param"]
    IN  IF spacePos = End(s)
        THEN Step(h, pos, "MalformedTag")
        ELSE Step(h1, skipLineOrEOS(s, nlPos), "ok")

appendDocTagParam(h, s, pos) ==
    LET n == Len(h.m_params)
        pair == h.m_params[n]
        sep == IF pos < End(s) /\ s[pos] # SP THEN <<SP>> ELSE <<>>
        nlPos == Find(s, pos, NL)
        pair1 == <<pair[1], pair[2] \o sep \o Sub(s, pos, nlPos)>>
        h1 == [h EXCEPT !.m_params[n] = pair1]
    IN  IF n = 0
        THEN Step(h, pos, "InternalInvariantViolation")
        ELSE Step(h1, skipLineOrEOS(s, nlPos), "ok")

appendDocTag(h, s, pos, own) ==
    CASE h.m_lastTag = "Dev" ->
            parseDocTagLine(h, s, pos, "m_dev", "Dev", TRUE)
      [] h.m_lastTag = "Notice" ->
            parseDocTagLine(h, s, pos, "m_notice", "Notice", TRUE)
      [] h.m_lastTag = "Return" ->
            parseDocTagLine(h, s, pos, "m_return", "Return", TRUE)
      [] h.m_lastTag = "Author" ->
            IF own = "Contract"
            THEN parseDocTagLine(h, s, pos, "m_contractAuthor", "Author", TRUE)
            ELSE IF own = "Function"
            THEN parseDocTagLine(h, s, pos, "m_author", "Author", TRUE)
            ELSE Step(h, pos, "IllegalTagForContext")
      [] h.m_lastTag = "Title" ->
            IF own = "Contract"
            THEN parseDocTagLine(h, s, pos, "m_title", "Title", TRUE)
            ELSE Step(h, pos, "IllegalTagForContext")
      [] h.m_lastTag = "Param" ->
            appendDocTagParam(h, s, pos)
      [] OTHER ->
            Step(h, pos, "InternalInvariantViolation")

\* parseDocTag that writes the author of every owner to m_author
parseDocTagAuthorToFunction(h, s, pos, tag, own) ==
    IF h.m_lastTag = "None" \/ tag # <<>>
    THEN IF tag = tagDev
         THEN parseDocTagLine(h, s, pos, "m_dev", "Dev", FALSE)
         ELSE IF tag = tagNotice
         THEN parseDocTagLine(h, s, pos, "m_notice", "Notice", FALSE)
         ELSE IF tag = tagReturn
         THEN parseDocTagLine(h, s, pos, "m_return", "Return", FALSE)
         ELSE IF tag = tagAuthor
         THEN parseDocTagLine(h, s, pos, "m_author", "Author", FALSE)
         ELSE IF tag = tagTitle
         THEN IF own = "Contract"
              THEN parseDocTagLine(h, s, pos, "m_title", "Title", FALSE)
              ELSE Step(h, pos, "IllegalTagForContext")
         ELSE IF tag = tagParam
         THEN parseDocTagParam(h, s, pos)
         ELSE Step(h, pos, "UnknownTag")
    ELSE appendDocTag(h, s, pos, own)

parseDocTag(h, s, pos, tag, own) ==
    IF h.m_lastTag = "None" \/ tag # <<>>
    THEN IF tag = tagDev
         THEN parseDocTagLine(h, s, pos, "m_dev", "Dev", FALSE)
         ELSE IF tag = tagNotice
         THEN parseDocTagLine(h, s, pos, "m_notice", "Notice", FALSE)
         ELSE IF tag = tagReturn
         THEN parseDocTagLine(h, s, pos, "m_return", "Return", FALSE)
         ELSE IF tag = tagAuthor
         THEN IF own = "Contract"
              THEN parseDocTagLine(h, s, pos, "m_contractAuthor", "Author", FALSE)
              ELSE IF own = "Function"
              THEN parseDocTagLine(h, s, pos, "m_author", "Author", FALSE)
              ELSE Step(h, pos, "IllegalTagForContext")
         ELSE IF tag = tagTitle
         THEN IF own = "Contract"
              THEN parseDocTagLine(h, s, pos, "m_title", "Title", FALSE)
              ELSE Step(h, pos, "IllegalTagForContext")
         ELSE IF tag = tagParam
         THEN parseDocTagParam(h, s, pos)
         ELSE Step(h, pos, "UnknownTag")
    ELSE appendDocTag(h, s, pos, own)

\* parseDocStringIter without the test for the end of the tag name
parseDocStringIterNoEndTest(h, s, pos, own) ==
    LET tagPos == Find(s, pos, AT)
        nlPos == Find(s, pos, NL)
        tagNameEndPos == firstSpaceOrNl(s, tagPos)
    IN  IF tagPos # End(s) /\ tagPos < nlPos
        THEN parseDocTag(h, s, tagNameEndPos + 1,
                         Sub(s, tagPos + 1, tagNameEndPos), own)
        ELSE IF h.m_lastTag # "None"
        THEN appendDocTag(h, s, pos, own)
        ELSE IF pos = 1
        THEN parseDocTag(h, s, pos, tagNotice, "Function")
        ELSE IF nlPos = End(s)
        THEN Step(h, pos, "return")
        ELSE Step(h, nlPos + 1, "ok")

\* One iteration of the while loop of parseDocString, entered with
\* pos # End(s).  Status "return" is the early return of the loop.
parseDocStringIter(h, s, pos, own) ==
    LET tagPos == Find(s, pos, AT)
        nlPos == Find(s, pos, NL)
        tagNameEndPos == firstSpaceOrNl(s, tagPos)
    IN  IF tagPos # End(s) /\ tagPos < nlPos
        THEN IF tagNameEndPos = End(s)
             THEN Step(h, pos, "MalformedTag")
             ELSE parseDocTag(h, s, tagNameEndPos + 1,
                              Sub(s, tagPos + 1, tagNameEndPos), own)
        ELSE IF h.m_lastTag # "None"
        THEN appendDocTag(h, s, pos, own)
        ELSE IF pos = 1
        THEN parseDocTag(h, s, pos, tagNotice, "Function")
        ELSE IF nlPos = End(s)
        THEN Step(h, pos, "return")
        ELSE Step(h, nlPos + 1, "ok")

(***************************************************************************)
(* The contracts handed to documentation().  A function of the contract    *)
(* is what the interface view of it exposes; documentation is <<>> for a   *)
(* null pointer and <<s>> for a pointer to the comment s.                  *)
(***************************************************************************)
Tag(t) == <<AT>> \o t
Line(t, body) == Tag(t) \o <<SP>> \o body

\* The comments of interface functions that the model draws from.
FunctionComments ==
    { <<>>,                                             \* ""
      <<"a", NL, "b">>,                                 \* "a\nb"
      Line(tagNotice, <<"a", NL, "b">>),                \* "@notice a\nb"
      Tag(tagNotice) \o <<NL, "b">>,                    \* "@notice\nb"
      Line(tagDev, <<"a", NL, "b">>),                   \* "@dev a\nb"
      Line(tagReturn, <<"a", NL, "b">>),                \* "@return a\nb"
      Line(tagAuthor, <<"a", NL, "b">>),                \* "@author a\nb"
      Line(tagParam, <<"x", SP, "a", NL, "b">>),        \* "@param x a\nb"
      Line(tagParam, <<"z", SP, "a">>),                 \* "@param z a"
      Line(tagParam, <<"x">>),                          \* "@param x"
      Line(tagParam, <<"x", NL, "b", SP, "c">>),        \* "@param x\nb c"
      Line(tagNotice, <<"a", NL>>) \o Tag(tagDev),      \* "@notice a\n@dev"
      Line(<<"z", "z">>, <<"a">>),                      \* "@zz a"
      Line(<<>>, <<"a">>),                              \* "@ a"
      Line(tagTitle, <<"a">>),                          \* "@title a"
      Tag(tagDev) \o <<NL>> \o Line(tagNotice, <<"a">>),\* "@dev\n@notice a"
      Tag(tagDev) \o <<NL>> \o Line(tagTitle, <<"a">>), \* "@dev\n@title a"
      Line(tagParam, <<"x", NL>>) \o Line(tagParam, <<"x", SP, "a">>)
                                                        \* "@param x\n@param x a"
    }

\* The comments of the contract itself.
ContractComments ==
    { <<"a">>,                                          \* "a"
      Line(tagTitle, <<"a", NL, "b">>),                 \* "@title a\nb"
      Line(tagAuthor, <<"a", NL, "b">>)                 \* "@author a\nb"
    }

Optional(S) == {<<>>} \cup {<<x>> : x \in S}

SeqsUpTo(S, n) == UNION {[1..k -> S] : k \in 0..n}

Range(f) == {f[i] : i \in DOMAIN f}

NoTypes == [b \in BOOLEAN |-> <<>>]

Injective(f) == \A i, j \in DOMAIN f : f[i] = f[j] => i = j

\* The interface functions of a documented contract: the k-th is
\* FunctionNames[k](int x), with the k-th comment.
FunctionNames == <<"f", "g", "h", "k">>
Signatures == <<"f(int)", "g(int)", "h(int)", "k(int)">>

DocFunction(k, d) ==
    [name |-> FunctionNames[k], externalSignature |-> Signatures[k],
     constant |-> FALSE,
     parameterNames |-> <<"x">>,
     parameterTypeNames |-> [b \in BOOLEAN |-> <<"int">>],
     returnParameterNames |-> <<>>, returnParameterTypeNames |-> NoTypes,
     documentation |-> d]

DocContracts ==
    { [name |-> "C", isLibrary |-> FALSE, documentation |-> d,
       constructor |-> <<>>,
       functions |-> [k \in DOMAIN ds |-> DocFunction(k, ds[k])],
       events |-> <<>>, definedStructs |-> <<>>, definedEnums |-> <<>>] :
         d \in Optional(ContractComments),
         ds \in SeqsUpTo(Optional(FunctionComments), MaxFunctions) }

\* The contracts the ABI is built of: no comments; functions, constructor
\* and events vary.
AbiFunctions ==
    { [name |-> "f", externalSignature |-> "f(int)", constant |-> FALSE,
       parameterNames |-> <<"x">>,
       parameterTypeNames |-> [b \in BOOLEAN |-> <<"int">>],
       returnParameterNames |-> <<>>, returnParameterTypeNames |-> NoTypes,
       documentation |-> <<>>],
      [name |-> "g", externalSignature |-> "g()", constant |-> TRUE,
       parameterNames |-> <<>>, parameterTypeNames |-> NoTypes,
       returnParameterNames |-> <<"r">>,
       returnParameterTypeNames |-> [b \in BOOLEAN |-> <<"bool">>],
       documentation |-> <<>>],
      [name |-> "h", externalSignature |-> "h(int,S)", constant |-> FALSE,
       parameterNames |-> <<"x", "s">>,
       parameterTypeNames |->
           [b \in BOOLEAN |-> IF b THEN <<"int", "S storage">> ELSE <<"int", "S">>],
       returnParameterNames |-> <<"r">>,
       returnParameterTypeNames |-> [b \in BOOLEAN |-> <<"int">>],
       documentation |-> <<>>],
      [name |-> "k", externalSignature |-> "k(bool)", constant |-> TRUE,
       parameterNames |-> <<"">>,
       parameterTypeNames |-> [b \in BOOLEAN |-> <<"bool">>],
       returnParameterNames |-> <<>>, returnParameterTypeNames |-> NoTypes,
       documentation |-> <<>>] }

AbiConstructors ==
    { [parameterNames |-> <<"a">>,
       parameterTypeNames |-> [b \in BOOLEAN |-> <<"int">>]] }

AbiEvents ==
    { [name |-> "Transfer", anonymous |-> FALSE,
       parameters |-> <<[name |-> "from", type |-> "address", indexed |-> TRUE],
                        [name |-> "amount", type |-> "uint", indexed |-> FALSE]>>],
      [name |-> "Log", anonymous |-> TRUE, parameters |-> <<>>],
      [name |-> "Done", anonymous |-> FALSE,
       parameters |-> <<[name |-> "ok", type |-> "bool", indexed |-> FALSE]>>] }

\* The struct and enum definitions of a contract, in declared order.
StructLists ==
    { <<>>,
      <<[name |-> "Point",
         members |-> <<[type |-> "int", name |-> "x"],
                       [type |-> "int", name |-> "y"]>>]>>,
      <<[name |-> "S", members |-> <<[type |-> "bool", name |-> "b"]>>],
        [name |-> "Point",
         members |-> <<[type |-> "int", name |-> "x"],
                       [type |-> "int", name |-> "y"]>>]>> }

EnumLists ==
    { <<>>,
      <<[name |-> "E", members |-> <<"A", "B">>]>>,
      <<[name |-> "N", members |-> <<>>],
        [name |-> "E", members |-> <<"A", "B">>]>> }

AbiContracts ==
    { [name |-> "C", isLibrary |-> lib, documentation |-> <<>>,
       constructor |-> ctor, functions |-> fs, events |-> es,
       definedStructs |-> ss, definedEnums |-> ens] :
         lib \in BOOLEAN,
         ctor \in Optional(AbiConstructors),
         fs \in {f \in SeqsUpTo(AbiFunctions, MaxFunctions) : Injective(f)},
         es \in {e \in SeqsUpTo(AbiEvents, MaxEvents) : Injective(e)},
         ss \in StructLists,
         ens \in EnumLists }

\* The call sites of the ContractDefinition interface.
interfaceFunctions(c) == c.functions
interfaceEvents(c) == c.events
externalSignature(f) == f.externalSignature

(***************************************************************************)
(* The JSON values the documentation builders assemble: an absent member   *)
(* is <<>>, a present one <<value>>; methods maps the external signature   *)
(* of a function to its entry.                                             *)
(***************************************************************************)
NoMethods == [i \in {} |-> <<>>]
NewDoc == [author |-> <<>>, title |-> <<>>, methods |-> NoMethods]

NoResult == [type |-> "None", status |-> "none", error |-> "", value |-> <<>>]
Returned(t, v) == [type |-> t, status |-> "ok", error |-> "", value |-> v]
Thrown(t, e) == [type |-> t, status |-> "error", error |-> e, value |-> <<>>]

Member(s) == IF s # <<>> THEN <<s>> ELSE <<>>

\* userEntry that adds the entry whatever the notice is
userEntryAlways(h, d, sig) ==
    [d EXCEPT !.methods = (sig :> [notice |-> h.m_notice]) @@ @]

\* userDocumentation, after parseDocString returned for function i
userEntry(h, d, sig) ==
    IF h.m_notice # <<>>
    THEN [d EXCEPT !.methods = (sig :> [notice |-> h.m_notice]) @@ @]
    ELSE d

\* devDocumentation, after parseDocString returned for the contract comment
devContractEntry(h, d) ==
    [d EXCEPT !.author = Member(h.m_contractAuthor),
              !.title = Member(h.m_title)]

\* The characters of a name of the contract, as the parser holds a name.
Chars(name) == [i \in 1..Len(name) |-> SubSeq(name, i, i)]

\* devDocumentation: a documented parameter missing from the parameter list
paramMismatch(h, paramNames) ==
    \E k \in 1..Len(h.m_params) :
        h.m_params[k][1] \notin {Chars(n) : n \in Range(paramNames)}

\* devDocumentation: the params object, later pairs overwriting earlier ones
paramsObject(pairs) ==
    [n \in {pairs[k][1] : k \in 1..Len(pairs)} |->
        LET last == CHOOSE k \in 1..Len(pairs) :
                        /\ pairs[k][1] = n
                        /\ \A j \in (k+1)..Len(pairs) : pairs[j][1] # n
        IN  pairs[last][2]]

devMethod(h) ==
    [details |-> Member(h.m_dev),
     author |-> Member(h.m_author),
     params |-> IF h.m_params # <<>> THEN <<paramsObject(h.m_params)>> ELSE <<>>,
     return |-> Member(h.m_return)]

methodEmpty(m) ==
    m.details = <<>> /\ m.author = <<>> /\ m.params = <<>> /\ m.return = <<>>

\* devDocumentation, after parseDocString returned for function i
devEntry(h, d, sig) ==
    IF ~methodEmpty(devMethod(h))
    THEN [d EXCEPT !.methods = (sig :> devMethod(h)) @@ @]
    ELSE d

(***************************************************************************)
(* abiInterface                                                            *)
(***************************************************************************)
populateParameters(paramNames, paramTypes) ==
    [k \in 1..Len(paramNames) |-> [name |-> paramNames[k], type |-> paramTypes[k]]]

abiFunction(c, f) ==
    [type |-> "function", name |-> f.name, constant |-> f.constant,
     inputs |-> populateParameters(f.parameterNames,
                                   f.parameterTypeNames[c.isLibrary]),
     outputs |-> populateParameters(f.returnParameterNames,
                                    f.returnParameterTypeNames[c.isLibrary])]

abiConstructor(c, f) ==
    [type |-> "constructor",
     inputs |-> populateParameters(f.parameterNames,
                                   f.parameterTypeNames[c.isLibrary])]

abiEvent(e) ==
    [type |-> "event", name |-> e.name, anonymous |-> e.anonymous,
     inputs |-> [k \in 1..Len(e.parameters) |->
                    [name |-> e.parameters[k].name,
                     type |-> e.parameters[k].type,
                     indexed |-> e.parameters[k].indexed]]]

\* abiInterface with the constructor entry appended after the events
abiInterfaceCtorLast(c) ==
    [k \in 1..Len(interfaceFunctions(c)) |-> abiFunction(c, interfaceFunctions(c)[k])]
    \o [k \in 1..Len(interfaceEvents(c)) |-> abiEvent(interfaceEvents(c)[k])]
    \o (IF c.constructor # <<>> THEN <<abiConstructor(c, c.constructor[1])>> ELSE <<>>)

abiInterface(c) ==
    [k \in 1..Len(interfaceFunctions(c)) |-> abiFunction(c, interfaceFunctions(c)[k])]
    \o (IF c.constructor # <<>> THEN <<abiConstructor(c, c.constructor[1])>> ELSE <<>>)
    \o [k \in 1..Len(interfaceEvents(c)) |-> abiEvent(interfaceEvents(c)[k])]

(***************************************************************************)
(* ABISolidityInterface.  The text is a string: back and pop_back are the  *)
(* members of std::string.                                                 *)
(***************************************************************************)
back(ret) == SubSeq(ret, Len(ret), Len(ret))
pop_back(ret) == SubSeq(ret, 1, Len(ret) - 1)

\* The loop of populateParameters from the parameter i on.
RECURSIVE populateParametersLoop(_, _, _, _)
populateParametersLoop(ret, paramNames, paramTypes, i) ==
    IF i > Len(paramNames)
    THEN ret
    ELSE populateParametersLoop(ret \o paramTypes[i] \o " " \o paramNames[i] \o ",",
                                paramNames, paramTypes, i + 1)

\* The lambda populateParameters of ABISolidityInterface.
populateParametersText(paramNames, paramTypes) ==
    LET ret == populateParametersLoop("(", paramNames, paramTypes, 1)
    IN  (IF Len(ret) # 1 THEN pop_back(ret) ELSE ret) \o ")"

RECURSIVE structMembers(_, _, _)
structMembers(ret, members, i) ==
    IF i > Len(members)
    THEN ret
    ELSE structMembers(ret \o members[i].type \o " " \o members[i].name \o ";",
                       members, i + 1)

RECURSIVE definedStructsLoop(_, _, _)
definedStructsLoop(ret, strus, i) ==
    IF i > Len(strus)
    THEN ret
    ELSE definedStructsLoop(
             structMembers(ret \o "struct " \o strus[i].name \o "{",
                           strus[i].members, 1) \o "}",
             strus, i + 1)

RECURSIVE enumMembers(_, _, _)
enumMembers(ret, members, i) ==
    IF i > Len(members)
    THEN ret
    ELSE enumMembers(ret \o members[i] \o ",", members, i + 1)

RECURSIVE definedEnumsLoop(_, _, _)
definedEnumsLoop(ret, enus, i) ==
    IF i > Len(enus)
    THEN ret
    ELSE LET r1 == enumMembers(ret \o "enum " \o enus[i].name \o "{",
                               enus[i].members, 1)
             r2 == IF back(r1) = "," THEN pop_back(r1) ELSE r1
         IN  definedEnumsLoop(r2 \o "}", enus, i + 1)

constructorText(c, ret) ==
    IF c.constructor # <<>>
    THEN ret \o "function " \o c.name
             \o populateParametersText(c.constructor[1].parameterNames,
                                       c.constructor[1].parameterTypeNames[c.isLibrary])
             \o ";"
    ELSE ret

RECURSIVE interfaceFunctionsLoop(_, _, _)
interfaceFunctionsLoop(c, ret, i) ==
    IF i > Len(interfaceFunctions(c))
    THEN ret
    ELSE LET f == interfaceFunctions(c)[i]
             r1 == ret \o "function " \o f.name
                       \o populateParametersText(f.parameterNames,
                                                 f.parameterTypeNames[c.isLibrary])
                       \o (IF f.constant THEN "constant " ELSE "")
             r2 == IF Len(f.returnParameterTypeNames[c.isLibrary]) # 0
                   THEN r1 \o "returns"
                           \o populateParametersText(f.returnParameterNames,
                                                     f.returnParameterTypeNames[c.isLibrary])
                   ELSE IF back(r1) = " " THEN pop_back(r1) ELSE r1
         IN  interfaceFunctionsLoop(c, r2 \o ";", i + 1)

\* ABISolidityInterface that writes the structs and enums of every contract
ABISolidityInterfaceAllTypes(c) ==
    LET r0 == (IF c.isLibrary THEN "library " ELSE "contract ") \o c.name \o "{"
        r1 == definedEnumsLoop(definedStructsLoop(r0, c.definedStructs, 1),
                               c.definedEnums, 1)
    IN  interfaceFunctionsLoop(c, constructorText(c, r1), 1) \o "}"

ABISolidityInterface(c) ==
    LET r0 == (IF c.isLibrary THEN "library " ELSE "contract ") \o c.name \o "{"
        r1 == IF c.isLibrary
              THEN definedEnumsLoop(definedStructsLoop(r0, c.definedStructs, 1),
                                    c.definedEnums, 1)
              ELSE r0
    IN  interfaceFunctionsLoop(c, constructorText(c, r1), 1) \o "}"

(***************************************************************************)
(* The state machine.  documentation() runs from pc = "idle" back to       *)
(* pc = "idle"; one action is one iteration of a loop of the code, or the  *)
(* code between two loops.                                                 *)
(*   "userLoop", "devLoop"  at the head of the loop over the functions     *)
(*   "parse"                at the head of the while loop of               *)
(*                          parseDocString, currPos # end                  *)
(*   "parsed"               parseDocString has returned to its caller      *)
(***************************************************************************)
NoString == <<>>

Idle(r) ==
    /\ pc' = "idle"
    /\ it' = 0
    /\ str' = NoString
    /\ owner' = "Function"
    /\ currPos' = 1
    /\ doc' = NewDoc
    /\ result' = r

\* The buffers the model follows: the calls of one mode never clear the
\* buffers of the other, so they grow without bound.
Followed(h) ==
    /\ Len(h.m_notice) <= MaxBuf
    /\ Len(h.m_dev) <= MaxBuf
    /\ Len(h.m_return) <= MaxBuf
    /\ Len(h.m_author) <= MaxBuf
    /\ Len(h.m_contractAuthor) <= MaxBuf
    /\ Len(h.m_title) <= MaxBuf
    /\ Len(h.m_params) <= MaxBuf
    /\ \A k \in 1..Len(h.m_params) : Len(h.m_params[k][2]) <= MaxBuf

\* Entry of parseDocString(s, own): the while condition is tested first.
EnterParse(s, own) ==
    /\ str' = s
    /\ owner' = own
    /\ currPos' = 1
    /\ pc' = IF 1 # End(s) THEN "parse" ELSE "parsed"

Init ==
    /\ contract \in DocContracts
    /\ handler = NewHandler
    /\ pc = "idle"
    /\ type = "None"
    /\ it = 0
    /\ str = NoString
    /\ owner = "Function"
    /\ currPos = 1
    /\ doc = NewDoc
    /\ result = NoResult

\* documentation(contract, NatspecUser): userDocumentation up to the loop
CallUserDocumentation ==
    /\ pc = "idle"
    /\ type' = "NatspecUser"
    /\ pc' = "userLoop"
    /\ it' = 1
    /\ doc' = NewDoc
    /\ result' = NoResult
    /\ UNCHANGED <<contract, handler, str, owner, currPos>>

\* userDocumentation: the head of the loop for one more function
UserLoop ==
    /\ pc = "userLoop"
    /\ it <= Len(interfaceFunctions(contract))
    /\ LET strPtr == interfaceFunctions(contract)[it].documentation
       IN  IF strPtr # <<>>
           THEN /\ handler' = resetUser(handler)
                /\ EnterParse(strPtr[1], "Function")
                /\ it' = it
           ELSE /\ it' = it + 1
                /\ UNCHANGED <<handler, pc, str, owner, currPos>>
    /\ UNCHANGED <<contract, type, doc, result>>

\* userDocumentation: after parseDocString, the rest of the loop body
UserParsed ==
    /\ pc = "parsed"
    /\ type = "NatspecUser"
    /\ doc' = userEntry(handler, doc, externalSignature(interfaceFunctions(contract)[it]))
    /\ it' = it + 1
    /\ pc' = "userLoop"
    /\ UNCHANGED <<contract, handler, type, str, owner, currPos, result>>

\* userDocumentation: the loop is over, the document is written
UserReturn ==
    /\ pc = "userLoop"
    /\ it > Len(interfaceFunctions(contract))
    /\ Idle(Returned("NatspecUser", doc))
    /\ UNCHANGED <<contract, handler, type>>

\* documentation(contract, NatspecDev): devDocumentation up to the first
\* parseDocString or the loop
CallDevDocumentation ==
    /\ pc = "idle"
    /\ type' = "NatspecDev"
    /\ doc' = NewDoc
    /\ it' = 0
    /\ LET contractDoc == contract.documentation
       IN  IF contractDoc # <<>>
           THEN /\ handler' = [handler EXCEPT !.m_contractAuthor = <<>>,
                                              !.m_title = <<>>]
                /\ EnterParse(contractDoc[1], "Contract")
           ELSE /\ pc' = "devLoop"
                /\ UNCHANGED <<handler, str, owner, currPos>>
    /\ result' = NoResult
    /\ UNCHANGED contract

\* devDocumentation: after parseDocString of the contract comment
DevContractParsed ==
    /\ pc = "parsed"
    /\ type = "NatspecDev"
    /\ owner = "Contract"
    /\ doc' = devContractEntry(handler, doc)
    /\ pc' = "devLoop"
    /\ UNCHANGED <<contract, handler, type, it, str, owner, currPos, result>>

\* devDocumentation: the head of the loop for one more function (the
\* contract comment is done: it = 0 becomes the first function)
DevLoop ==
    /\ pc = "devLoop"
    /\ it < Len(interfaceFunctions(contract))
    /\ LET strPtr == interfaceFunctions(contract)[it + 1].documentation
       IN  IF strPtr # <<>>
           THEN /\ handler' = resetDev(handler)
                /\ EnterParse(strPtr[1], "Function")
           ELSE UNCHANGED <<handler, pc, str, owner, currPos>>
    /\ it' = it + 1
    /\ UNCHANGED <<contract, type, doc, result>>

\* DevParsed that skips the function of a mismatching parameter name
DevParsedSkips ==
    /\ pc = "parsed"
    /\ type = "NatspecDev"
    /\ owner = "Function"
    /\ doc' = IF paramMismatch(handler, interfaceFunctions(contract)[it].parameterNames)
              THEN doc
              ELSE devEntry(handler, doc,
                            externalSignature(interfaceFunctions(contract)[it]))
    /\ pc' = "devLoop"
    /\ UNCHANGED <<contract, handler, type, it, str, owner, currPos, result>>

\* devDocumentation: after parseDocString of a function comment
DevParsed ==
    /\ pc = "parsed"
    /\ type = "NatspecDev"
    /\ owner = "Function"
    /\ IF paramMismatch(handler, interfaceFunctions(contract)[it].parameterNames)
       THEN Idle(Thrown("NatspecDev", "ParamNameMismatch"))
       ELSE /\ doc' = devEntry(handler, doc, externalSignature(interfaceFunctions(contract)[it]))
            /\ pc' = "devLoop"
            /\ UNCHANGED <<it, str, owner, currPos, result>>
    /\ UNCHANGED <<contract, handler, type>>

\* devDocumentation: the loop is over, the document is written
DevReturn ==
    /\ pc = "devLoop"
    /\ it >= Len(interfaceFunctions(contract))
    /\ Idle(Returned("NatspecDev", doc))
    /\ UNCHANGED <<contract, handler, type>>

\* parseDocString: one iteration of the while loop
ParseIteration ==
    /\ pc = "parse"
    /\ LET r == parseDocStringIter(handler, str, currPos, owner)
       IN  /\ Followed(r.h)
           /\ handler' = r.h
           /\ IF r.status \in ErrorKinds
              THEN Idle(Thrown(type, r.status))
              ELSE /\ currPos' = r.pos
                   /\ pc' = IF r.status = "return" \/ r.pos = End(str)
                            THEN "parsed" ELSE "parse"
                   /\ UNCHANGED <<it, str, owner, doc, result>>
    /\ UNCHANGED <<contract, type>>

\* documentation(contract, ABIInterface)
CallAbiInterface ==
    /\ pc = "idle"
    /\ type' = "ABIInterface"
    /\ Idle(Returned("ABIInterface", abiInterface(contract)))
    /\ UNCHANGED <<contract, handler>>

\* documentation(contract, ABISolidityInterface)
CallABISolidityInterface ==
    /\ pc = "idle"
    /\ type' = "ABISolidityInterface"
    /\ Idle(Returned("ABISolidityInterface", ABISolidityInterface(contract)))
    /\ UNCHANGED <<contract, handler>>

Next ==
    \/ CallUserDocumentation
    \/ UserLoop
    \/ UserParsed
    \/ UserReturn
    \/ CallDevDocumentation
    \/ DevContractParsed
    \/ DevLoop
    \/ DevParsed
    \/ DevReturn
    \/ ParseIteration
    \/ CallAbiInterface
    \/ CallABISolidityInterface

Spec == Init /\ [][Next]_vars

(***************************************************************************)
(* A whole call of documentation() as a function of the handler it is      *)
(* called on and of the contract: the loops run to their end.              *)
(***************************************************************************)
RECURSIVE parseDocString(_, _, _, _)
parseDocString(h, s, pos, own) ==
    IF pos = End(s)
    THEN Step(h, pos, "ok")
    ELSE LET r == parseDocStringIter(h, s, pos, own)
         IN  IF r.status = "ok"
             THEN parseDocString(r.h, s, r.pos, own)
             ELSE IF r.status = "return" THEN Step(r.h, r.pos, "ok") ELSE r

RECURSIVE userDocumentationLoop(_, _, _, _)
userDocumentationLoop(h, d, c, i) ==
    IF i > Len(interfaceFunctions(c))
    THEN Returned("NatspecUser", d)
    ELSE LET f == interfaceFunctions(c)[i]
             r == parseDocString(resetUser(h), f.documentation[1], 1, "Function")
         IN  IF f.documentation = <<>>
             THEN userDocumentationLoop(h, d, c, i + 1)
             ELSE IF r.status \in ErrorKinds
             THEN Thrown("NatspecUser", r.status)
             ELSE userDocumentationLoop(r.h, userEntry(r.h, d, externalSignature(f)),
                                        c, i + 1)

userDocumentation(h, c) == userDocumentationLoop(h, NewDoc, c, 1)

RECURSIVE devDocumentationLoop(_, _, _, _)
devDocumentationLoop(h, d, c, i) ==
    IF i > Len(interfaceFunctions(c))
    THEN Returned("NatspecDev", d)
    ELSE LET f == interfaceFunctions(c)[i]
             r == parseDocString(resetDev(h), f.documentation[1], 1, "Function")
         IN  IF f.documentation = <<>>
             THEN devDocumentationLoop(h, d, c, i + 1)
             ELSE IF r.status \in ErrorKinds
             THEN Thrown("NatspecDev", r.status)
             ELSE IF paramMismatch(r.h, f.parameterNames)
             THEN Thrown("NatspecDev", "ParamNameMismatch")
             ELSE devDocumentationLoop(r.h, devEntry(r.h, d, externalSignature(f)),
                                       c, i + 1)

devDocumentation(h, c) ==
    LET r == parseDocString([h EXCEPT !.m_contractAuthor = <<>>, !.m_title = <<>>],
                            c.documentation[1], 1, "Contract")
    IN  IF c.documentation = <<>>
        THEN devDocumentationLoop(h, NewDoc, c, 1)
        ELSE IF r.status \in ErrorKinds
        THEN Thrown("NatspecDev", r.status)
        ELSE devDocumentationLoop(r.h, devContractEntry(r.h, NewDoc), c, 1)

documentation(h, c, t) ==
    CASE t = "NatspecUser" -> userDocumentation(h, c)
      [] t = "NatspecDev" -> devDocumentation(h, c)
      [] t = "ABIInterface" -> Returned(t, abiInterface(c))
      [] t = "ABISolidityInterface" -> Returned(t, ABISolidityInterface(c))

(***************************************************************************)
(* The ABI builder on its own: contracts with functions, a constructor and *)
(* events, and the call documentation(contract, ABIInterface).             *)
(***************************************************************************)
InitAbi ==
    /\ contract \in AbiContracts
    /\ handler = NewHandler
    /\ pc = "idle"
    /\ type = "None"
    /\ it = 0
    /\ str = NoString
    /\ owner = "Function"
    /\ currPos = 1
    /\ doc = NewDoc
    /\ result = NoResult

NextAbi ==
    \/ CallAbiInterface
    \/ CallABISolidityInterface

SpecAbi == InitAbi /\ [][NextAbi]_vars

(***************************************************************************)
(* parseDocString on its own: the handler is in the middle of a call, at   *)
(* the head of the while loop for a comment made of a few pieces, with any *)
(* last tag left by earlier comments.                                      *)
(***************************************************************************)
ParseTokens == {Tag(tagDev), Tag(tagParam), <<SP>>, <<NL>>, <<"x">>}

RECURSIVE Flatten(_)
Flatten(ts) == IF ts = <<>> THEN <<>> ELSE Head(ts) \o Flatten(Tail(ts))

ParseStrings == {Flatten(ts) : ts \in SeqsUpTo(ParseTokens, MaxTokens)} \ {<<>>}

ParseHandlers ==
    {[NewHandler EXCEPT !.m_lastTag = t] : t \in DocTagType}
    \cup {[NewHandler EXCEPT !.m_lastTag = "Param",
                             !.m_params = << <<<<"x">>, <<"a">>>> >>]}

InitParse ==
    /\ str \in ParseStrings
    /\ owner \in CommentOwner
    /\ handler \in ParseHandlers
    /\ contract =
          IF owner = "Contract"
          THEN [name |-> "C", isLibrary |-> FALSE, documentation |-> <<str>>,
                constructor |-> <<>>, functions |-> <<>>, events |-> <<>>,
                definedStructs |-> <<>>, definedEnums |-> <<>>]
          ELSE [name |-> "C", isLibrary |-> FALSE, documentation |-> <<>>,
                constructor |-> <<>>, functions |-> <<DocFunction(1, <<str>>)>>,
                events |-> <<>>, definedStructs |-> <<>>, definedEnums |-> <<>>]
    /\ type = "NatspecDev"
    /\ it = IF owner = "Contract" THEN 0 ELSE 1
    /\ pc = "parse"
    /\ currPos = 1
    /\ doc = NewDoc
    /\ result = NoResult

NextParse == ParseIteration

SpecParse == InitParse /\ [][NextParse]_vars

(***************************************************************************)
(* Properties.                                                             *)
(***************************************************************************)
AbiReturned == result.type = "ABIInterface" /\ result.status = "ok"

\* C1: the ABI of every contract has one entry per interface function, in
\* the order of the functions, then one constructor entry if the contract
\* has a constructor, then one entry per interface event, in the order of
\* the events, and nothing else.
C1_AbiEntries ==
    AbiReturned =>
        LET abi == result.value
            fs == contract.functions
            es == contract.events
            nc == IF contract.constructor # <<>> THEN 1 ELSE 0
        IN  /\ Len(abi) = Len(fs) + nc + Len(es)
            /\ \A k \in 1..Len(fs) :
                  abi[k].type = "function" /\ abi[k].name = fs[k].name
            /\ nc = 1 => abi[Len(fs) + 1].type = "constructor"
            /\ \A k \in 1..Len(es) :
                  /\ abi[Len(fs) + nc + k].type = "event"
                  /\ abi[Len(fs) + nc + k].name = es[k].name

\* C1 witness: the ABI of a contract with two functions, a constructor and
\* two events has been built.
C1_Witness ==
    /\ AbiReturned
    /\ Len(contract.functions) = 2
    /\ contract.constructor # <<>>
    /\ Len(contract.events) = 2
    /\ Len(result.value) = 5

UserReturned == result.type = "NatspecUser" /\ result.status = "ok"
DevReturned == result.type = "NatspecDev" /\ result.status = "ok"

\* The functions of the contract under documentation.
Functions == 1..Len(contract.functions)
Comment(k) == contract.functions[k].documentation
Sig(k) == contract.functions[k].externalSignature
Documented(k) == Comment(k) # <<>>

\* C2: a function whose comment is absent or empty has no entry in the
\* methods of the user document and none in those of the developer
\* document, neither while the document is built nor when it is returned.
C2_NoEntryWithoutComment ==
    \A k \in Functions :
        (Comment(k) = <<>> \/ Comment(k) = << <<>> >>) =>
            /\ Sig(k) \notin DOMAIN doc.methods
            /\ (UserReturned \/ DevReturned) =>
                   Sig(k) \notin DOMAIN result.value.methods

\* C2 witness: a developer document was returned for a contract whose
\* first function is documented with @return and whose second has the
\* empty comment: the first has an entry, the second none, and the handler
\* still remembers the tag of the first.
C2_Witness ==
    /\ DevReturned
    /\ Len(contract.functions) = 2
    /\ Comment(1) = <<Line(tagReturn, <<"a", NL, "b">>)>>
    /\ Comment(2) = << <<>> >>
    /\ DOMAIN result.value.methods = {Sig(1)}
    /\ handler.m_lastTag = "Return"
    /\ handler.m_return = <<>>

\* C3: in devDocumentation, when the comment of a function has been parsed
\* and one of the parsed pairs has a name that is not a parameter name of
\* that function, the call ends there by throwing ParamNameMismatch: the
\* function is not skipped and no document is returned.
C3_ParamNameMismatchAborts ==
    [][ ( /\ pc = "parsed"
          /\ type = "NatspecDev"
          /\ owner = "Function"
          /\ \E k \in 1..Len(handler.m_params) :
                \A j \in 1..Len(contract.functions[it].parameterNames) :
                    Chars(contract.functions[it].parameterNames[j])
                        # handler.m_params[k][1] )
        => ( /\ pc' = "idle"
             /\ result' = Thrown("NatspecDev", "ParamNameMismatch") ) ]_vars

\* C3 witness: devDocumentation threw ParamNameMismatch at the second
\* function, documented "@param z a", after the first was documented well.
C3_Witness ==
    /\ result = Thrown("NatspecDev", "ParamNameMismatch")
    /\ Len(contract.functions) = 2
    /\ Comment(1) = <<Line(tagDev, <<"a", NL, "b">>)>>
    /\ Comment(2) = <<Line(tagParam, <<"z", SP, "a">>)>>
    /\ handler.m_params = << <<<<"z">>, <<"a">>>> >>

(***************************************************************************)
(* Comments of the shape  "@<tag> <body>\n<second>":  a tag line whose     *)
(* name ends at a space, followed directly by one more line that is not    *)
(* blank, has no tag marker and does not start with a space.               *)
(***************************************************************************)
TwoLines(c) ==
    LET sp == Find(c, 1, SP)
        nl == Find(c, 1, NL)
    IN  /\ Len(c) >= 1 /\ c[1] = AT
        /\ sp < nl /\ nl < Len(c)
        /\ c[nl + 1] # SP
        /\ \A p \in 2..Len(c) : c[p] # AT
        /\ \A p \in (nl + 1)..Len(c) : c[p] # NL

TagName(c) == Sub(c, 2, Find(c, 1, SP))
FirstBody(c) == Sub(c, Find(c, 1, SP) + 1, Find(c, 1, NL))
SecondLine(c) == Sub(c, Find(c, 1, NL) + 1, End(c))
Folded(c) == FirstBody(c) \o <<SP>> \o SecondLine(c)

\* for "@param <name> <description>\n<second>"
ParamNameOf(c) == Sub(FirstBody(c), 1, Find(FirstBody(c), 1, SP))
FoldedParam(c) ==
    Sub(FirstBody(c), Find(FirstBody(c), 1, SP) + 1, End(FirstBody(c)))
        \o <<SP>> \o SecondLine(c)
TwoLinesParam(c) ==
    TwoLines(c) /\ TagName(c) = tagParam /\ Find(FirstBody(c), 1, SP) <= Len(FirstBody(c))

FoldLines(c) == [p \in 1..Len(c) |-> IF c[p] = NL THEN SP ELSE c[p]]
Untagged(c) == c # <<>> /\ \A p \in 1..Len(c) : c[p] # AT

\* C5: in every user document that is returned, every function whose
\* comment is not empty and has no tag marker has an entry, and its notice
\* is the text of the comment, lines folded, with no leading space,
\* whatever was parsed before.
C5_UntaggedIsNotice ==
    UserReturned =>
        \A k \in Functions :
            (Documented(k) /\ Untagged(Comment(k)[1])) =>
                /\ Sig(k) \in DOMAIN result.value.methods
                /\ result.value.methods[Sig(k)].notice = FoldLines(Comment(k)[1])

\* The name of the tag marker at position p, and comments all of whose
\* documentation is under tags of the set S.
MarkerName(c, p) == Sub(c, p + 1, firstSpaceOrNl(c, p))
OnlyTags(c, S) ==
    /\ Len(c) >= 1 /\ c[1] = AT
    /\ \A p \in 1..Len(c) : c[p] = AT => MarkerName(c, p) \in S

DevGroupEmpty(h) ==
    h.m_dev = <<>> /\ h.m_author = <<>> /\ h.m_params = <<>> /\ h.m_return = <<>>

\* C6: a function has an entry in the user document only if the parse of
\* its own comment left m_notice non-empty, and an entry in the developer
\* document only if that parse left one of m_dev, m_author, m_params,
\* m_return non-empty; a function documented with @notice tags only is
\* absent from the developer document, and one documented with @dev,
\* @return, @author, @param tags only is absent from the user document.
C6_EntryOnlyIfOwnField ==
    /\ (pc = "userLoop" /\ it >= 2 /\ Documented(it - 1)) =>
          (Sig(it - 1) \in DOMAIN doc.methods => handler.m_notice # <<>>)
    /\ (pc = "devLoop" /\ it >= 1 /\ Documented(it)) =>
          (Sig(it) \in DOMAIN doc.methods => ~DevGroupEmpty(handler))
    /\ DevReturned =>
          \A k \in Functions :
              (Documented(k) /\ OnlyTags(Comment(k)[1], {tagNotice})) =>
                  Sig(k) \notin DOMAIN result.value.methods
    /\ UserReturned =>
          \A k \in Functions :
              (Documented(k) /\
               OnlyTags(Comment(k)[1], {tagDev, tagReturn, tagAuthor, tagParam})) =>
                  Sig(k) \notin DOMAIN result.value.methods

\* C6 witness: the developer document of the functions "@dev a\nb" and
\* "@notice a\nb" has been returned with an entry for the first only; the
\* parse of the second left the notice in m_notice and the developer
\* buffers empty.
C6_Witness ==
    /\ DevReturned
    /\ Len(contract.functions) = 2
    /\ Comment(1) = <<Line(tagDev, <<"a", NL, "b">>)>>
    /\ Comment(2) = <<Line(tagNotice, <<"a", NL, "b">>)>>
    /\ DOMAIN result.value.methods = {Sig(1)}
    /\ handler.m_notice # <<>>
    /\ DevGroupEmpty(handler)

\* A tag marker is the first on the line the cursor is at, and no space
\* and no line break follows it up to the end of the comment.
UnterminatedTagAhead(s, pos) ==
    \E p \in pos..Len(s) :
        /\ s[p] = AT
        /\ \A q \in pos..(p - 1) : s[q] \notin {AT, NL}
        /\ \A q \in p..Len(s) : s[q] \notin {SP, NL}

\* C7: an iteration of parseDocString that finds a tag marker on the line
\* of the cursor, with neither a space nor a line break from the marker to
\* the end of the comment, throws MalformedTag and changes no buffer (nor
\* m_lastTag).
C7_UnterminatedTagIsMalformed ==
    [][ (pc = "parse" /\ UnterminatedTagAhead(str, currPos))
        => ( /\ result' = Thrown(type, "MalformedTag")
             /\ pc' = "idle"
             /\ handler' = handler ) ]_vars

\* C7 witness: userDocumentation of "@notice a\n@dev" threw MalformedTag
\* at the second line; the notice of the first line is in the buffer and
\* the tag dev wrote nothing.
C7_Witness ==
    /\ result = Thrown("NatspecUser", "MalformedTag")
    /\ Len(contract.functions) = 1
    /\ Comment(1) = <<Line(tagNotice, <<"a", NL>>) \o Tag(tagDev)>>
    /\ handler.m_notice = <<"a">>
    /\ handler.m_dev = <<>>
    /\ handler.m_lastTag = "Notice"

\* The first tag marker of the line the cursor is at is "@param ", and the
\* rest of that line has no space.
ParamLineWithoutSeparator(s, pos) ==
    \E p \in pos..Len(s) :
        /\ s[p] = AT
        /\ \A q \in pos..(p - 1) : s[q] \notin {AT, NL}
        /\ p + 6 <= Len(s)
        /\ Sub(s, p + 1, p + 6) = tagParam
        /\ s[p + 6] = SP
        /\ \A q \in (p + 7)..(Find(s, p + 7, NL) - 1) : s[q] # SP

\* C8: an iteration of parseDocString at a param tag whose own line has no
\* space between a name and a description throws MalformedTag and pushes
\* no pair, whatever the later lines are.
C8_ParamWithoutSeparatorIsMalformed ==
    [][ (pc = "parse" /\ ParamLineWithoutSeparator(str, currPos))
        => ( /\ result'.error = "MalformedTag"
             /\ handler'.m_params = handler.m_params ) ]_vars

KnownTags == {tagDev, tagNotice, tagReturn, tagAuthor, tagTitle, tagParam}

\* The first tag marker of the line the cursor is at has a terminated name
\* that is not a known tag (the empty name included).
UnknownTagAhead(s, pos) ==
    \E p \in pos..Len(s) :
        /\ s[p] = AT
        /\ \A q \in pos..(p - 1) : s[q] \notin {AT, NL}
        /\ \E e \in (p + 1)..Len(s) :
              /\ s[e] \in {SP, NL}
              /\ \A q \in (p + 1)..(e - 1) : s[q] \notin {SP, NL}
              /\ Sub(s, p + 1, e) \notin KnownTags

\* C9: an iteration of parseDocString at a tag marker whose name is not
\* dev, notice, return, author, title or param (the empty name included)
\* throws UnknownTag, whatever m_lastTag and the owner are.
C9_UnknownTagFails ==
    [][ (pc = "parse" /\ UnknownTagAhead(str, currPos))
        => result'.error = "UnknownTag" ]_vars

\* A line of the comment starts with the tag marker of the name t.
HasTagLine(c, t) ==
    \E p \in 1..Len(c) :
        /\ c[p] = AT
        /\ p = 1 \/ c[p - 1] = NL
        /\ p + Len(t) + 1 <= Len(c)
        /\ Sub(c, p + 1, p + 1 + Len(t)) = t
        /\ c[p + 1 + Len(t)] \in {SP, NL}

\* C10: no user document and no developer document is returned for a
\* contract one of whose documented functions has a @title tag in its
\* comment (the parse of that comment throws IllegalTagForContext).
C10_TitleInFunctionAborts ==
    (UserReturned \/ DevReturned) =>
        \A k \in Functions :
            Documented(k) => ~HasTagLine(Comment(k)[1], tagTitle)

\* The comment contains the marker of the tag t, anywhere.
HasMarker(c, t) ==
    \E p \in 1..Len(c) :
        /\ c[p] = AT
        /\ p + Len(t) <= Len(c)
        /\ Sub(c, p + 1, p + 1 + Len(t)) = t

\* C11: a devDocumentation run throws IllegalTagForContext only if the
\* comment of one of the documented functions contains a @title marker,
\* whatever the contract comment and the other function comments are.
C11_IllegalTagOnlyForTitle ==
    result = Thrown("NatspecDev", "IllegalTagForContext") =>
        \E k \in Functions :
            Documented(k) /\ HasMarker(Comment(k)[1], tagTitle)

\* The first tag marker of the line the cursor is at has the name t, ended
\* by a space or a line break.
TagAhead(s, pos, t) ==
    \E p \in pos..Len(s) :
        /\ s[p] = AT
        /\ \A q \in pos..(p - 1) : s[q] \notin {AT, NL}
        /\ p + Len(t) + 1 <= Len(s)
        /\ Sub(s, p + 1, p + 1 + Len(t)) = t
        /\ s[p + 1 + Len(t)] \in {SP, NL}

\* The line the cursor is at has no tag marker.
NoTagAhead(s, pos) ==
    \A p \in pos..(Find(s, pos, NL) - 1) : s[p] # AT

Buffers ==
    {"m_notice", "m_dev", "m_return", "m_author", "m_contractAuthor",
     "m_title", "m_params"}

AuthorSlot(own) == IF own = "Contract" THEN "m_contractAuthor" ELSE "m_author"

IsPrefix(a, b) == Len(a) <= Len(b) /\ SubSeq(b, 1, Len(a)) = a

\* C12: an iteration of parseDocString at an @author tag, or at a tag-less
\* line while m_lastTag = Author, throws nothing, extends the author buffer
\* of the owner of the comment (m_author for Function, m_contractAuthor for
\* Contract) and changes no other buffer; the developer document renders
\* m_contractAuthor as its top-level author.
C12_AuthorRoutedByOwner ==
    /\ [](DevReturned => result.value.author = Member(handler.m_contractAuthor))
    /\ [][ ( /\ pc = "parse"
             /\ \/ TagAhead(str, currPos, tagAuthor)
                \/ NoTagAhead(str, currPos) /\ handler.m_lastTag = "Author" )
           => ( /\ result'.status # "error"
                /\ handler'.m_lastTag = "Author"
                /\ IsPrefix(handler[AuthorSlot(owner)], handler'[AuthorSlot(owner)])
                /\ handler'[AuthorSlot(owner)] # handler[AuthorSlot(owner)]
                /\ \A b \in Buffers \ {AuthorSlot(owner)} :
                      handler'[b] = handler[b] ) ]_vars

\* C12 witness: the developer document of a contract commented
\* "@author a\nb" whose function f is commented "@author a\nb" has the
\* top-level author "a b" and the author "a b" for f.
C12_Witness ==
    /\ DevReturned
    /\ contract.documentation = <<Line(tagAuthor, <<"a", NL, "b">>)>>
    /\ Len(contract.functions) = 1
    /\ Comment(1) = <<Line(tagAuthor, <<"a", NL, "b">>)>>
    /\ result.value.author = <<<<"a", SP, "b">>>>
    /\ result.value.methods[Sig(1)].author = <<<<"a", SP, "b">>>>
    /\ handler.m_contractAuthor = <<"a", SP, "b">>
    /\ handler.m_author = <<"a", SP, "b">>

SolReturned == result.type = "ABISolidityInterface" /\ result.status = "ok"

\* The strings of a sequence, one after the other, sep between two of them.
RECURSIVE Join(_, _)
Join(parts, sep) ==
    IF Len(parts) = 0 THEN ""
    ELSE IF Len(parts) = 1 THEN parts[1]
    ELSE parts[1] \o sep \o Join(Tail(parts), sep)

Contains(text, pat) ==
    \E i \in 1..(Len(text) - Len(pat) + 1) :
        SubSeq(text, i, i + Len(pat) - 1) = pat

\* A parameter list: "<type> <name>" for each parameter, commas between.
ParamList(names, types) ==
    "(" \o Join([k \in 1..Len(names) |-> types[k] \o " " \o names[k]], ",") \o ")"

StructText(stru) ==
    "struct " \o stru.name \o "{"
        \o Join([k \in 1..Len(stru.members) |->
                    stru.members[k].type \o " " \o stru.members[k].name \o ";"], "")
        \o "}"

EnumText(enu) == "enum " \o enu.name \o "{" \o Join(enu.members, ",") \o "}"

FunctionText(c, f) ==
    LET returns == f.returnParameterNames # <<>>
    IN  "function " \o f.name
            \o ParamList(f.parameterNames, f.parameterTypeNames[c.isLibrary])
            \o (IF f.constant THEN "constant" ELSE "")
            \o (IF f.constant /\ returns THEN " " ELSE "")
            \o (IF returns
                THEN "returns" \o ParamList(f.returnParameterNames,
                                            f.returnParameterTypeNames[c.isLibrary])
                ELSE "")
            \o ";"

\* The parts of the minimal-interface text, in their order.
TextParts(c) ==
    <<(IF c.isLibrary THEN "library " ELSE "contract ") \o c.name \o "{">>
    \o (IF c.isLibrary
        THEN [k \in 1..Len(c.definedStructs) |-> StructText(c.definedStructs[k])]
             \o [k \in 1..Len(c.definedEnums) |-> EnumText(c.definedEnums[k])]
        ELSE <<>>)
    \o (IF c.constructor # <<>>
        THEN <<"function " \o c.name
                  \o ParamList(c.constructor[1].parameterNames,
                               c.constructor[1].parameterTypeNames[c.isLibrary])
                  \o ";">>
        ELSE <<>>)
    \o [k \in 1..Len(c.functions) |-> FunctionText(c, c.functions[k])]
    \o <<"}">>

\* C13: the minimal-interface text is the header, then for a library (and
\* only for a library) every struct and then every enum, then the
\* constructor as "function <name>(...);" without a returns clause, then
\* every interface function in declared order, then "}"; no parameter list
\* and no enum ends with a comma, and an empty parameter list is "()".
C13_TextOrder ==
    SolReturned =>
        /\ result.value = Join(TextParts(contract), "")
        /\ ~Contains(result.value, ",)")
        /\ ~Contains(result.value, ",}")
        /\ (Contains(result.value, "struct ") \/ Contains(result.value, "enum "))
              => contract.isLibrary

\* C13 witness: the text of a library with two structs, two enums, a
\* constructor and the functions g and k.
C13_Witness ==
    /\ SolReturned
    /\ contract.isLibrary
    /\ Len(contract.definedStructs) = 2
    /\ Len(contract.definedEnums) = 2
    /\ result.value =
          "library C{struct S{bool b;}struct Point{int x;int y;}"
          \o "enum N{}enum E{A,B}function C(int a);"
          \o "function g()constant returns(bool r);function k(bool )constant;}"

\* C14: the assertion of appendDocTagParam never fails: whenever the parser
\* is at a tag-less line with m_lastTag = Param, m_params is not empty, and
\* no call of documentation ends by the failed assertion.
C14_ParamContinuationHasPair ==
    /\ (pc = "parse" /\ handler.m_lastTag = "Param" /\ NoTagAhead(str, currPos))
          => handler.m_params # <<>>
    /\ result.error # "InternalInvariantViolation"

\* The positions of the comment where the marker of the tag t stands, its
\* name ended by a space or a line break.
TagPositions(c, t) ==
    {p \in 1..Len(c) :
        /\ c[p] = AT
        /\ p + Len(t) + 1 <= Len(c)
        /\ Sub(c, p + 1, p + 1 + Len(t)) = t
        /\ c[p + 1 + Len(t)] \in {SP, NL}}

\* C15: when devDocumentation has parsed the comment of a function (after
\* resetDev) without an exception, m_params has exactly one pair for each
\* @param tag of the comment: a continuation line adds no pair and every
\* tag adds one.
C15_OnePairPerParamTag ==
    (pc = "parsed" /\ type = "NatspecDev" /\ owner = "Function")
        => Len(handler.m_params) = Cardinality(TagPositions(str, tagParam))

UserGroup == {"m_notice"}
DevGroup == {"m_dev", "m_author", "m_return", "m_params"}

\* C16: the reset at the head of the loop of userDocumentation empties
\* m_notice and the one of devDocumentation empties m_dev, m_author,
\* m_return and m_params; each leaves m_lastTag, m_title, m_contractAuthor
\* and the buffers of the other group as they were.
C16_ResetFrame ==
    [][ /\ (pc = "userLoop" /\ pc' \in {"parse", "parsed"})
            => ( /\ \A b \in UserGroup : handler'[b] = <<>>
                 /\ \A b \in Buffers \ UserGroup : handler'[b] = handler[b]
                 /\ handler'.m_lastTag = handler.m_lastTag )
        /\ (pc = "devLoop" /\ pc' \in {"parse", "parsed"})
            => ( /\ \A b \in DevGroup : handler'[b] = <<>>
                 /\ \A b \in Buffers \ DevGroup : handler'[b] = handler[b]
                 /\ handler'.m_lastTag = handler.m_lastTag ) ]_vars

\* C16 witness: devDocumentation is at the start of the comment of the
\* second function, after resetDev: the details of the first function are
\* gone, and the last tag (Dev), the title of the contract and the notice
\* of an earlier userDocumentation are still there.
C16_Witness ==
    /\ pc = "parse" /\ currPos = 1
    /\ type = "NatspecDev" /\ owner = "Function" /\ it = 2
    /\ Comment(1) = <<Line(tagDev, <<"a", NL, "b">>)>>
    /\ handler.m_dev = <<>>
    /\ handler.m_lastTag = "Dev"
    /\ handler.m_title = <<"a", SP, "b">>
    /\ handler.m_notice = <<"a", SP, "b">>

\* The first tag marker of the line the cursor is at has a name ended by
\* the line break, and the following line starts with a tag marker.
TagThenTagLine(s, pos) ==
    \E p \in pos..Len(s) :
        /\ s[p] = AT
        /\ \A q \in pos..(p - 1) : s[q] \notin {AT, NL}
        /\ \E e \in (p + 1)..(Len(s) - 1) :
              /\ s[e] = NL
              /\ \A q \in (p + 1)..(e - 1) : s[q] \notin {SP, NL}
              /\ s[e + 1] = AT

LineBuffers == Buffers \ {"m_params"}

\* C17: an iteration of parseDocString at a tag whose name is ended by the
\* line break, the following line starting with a tag marker, copies no
\* tag marker into a buffer: the tag line has an empty body and the
\* following line is left to be read as a tag.
C17_TagAfterLineBreakIsTag ==
    [][ (pc = "parse" /\ TagThenTagLine(str, currPos))
        => \A b \in LineBuffers :
              AT \in Range(handler'[b]) => AT \in Range(handler[b]) ]_vars

DocumentationTypes ==
    {"NatspecUser", "NatspecDev", "ABIInterface", "ABISolidityInterface"}

\* C18: whatever was called on the handler before, a call of
\* documentation(contract, type) ends as the same call on a new handler
\* ends: with the same exception, or returning the same document.
C18_Repeatable ==
    result.type \in DocumentationTypes =>
        LET first == documentation(NewHandler, contract, result.type)
        IN  /\ result.status = first.status
            /\ result.error = first.error
            /\ result.status = "ok" => result.value = first.value

\* C19: every iteration of the loop of parseDocString throws, or returns
\* from the loop without moving the cursor, or moves the cursor forward and
\* not past the end of the comment: the loop ends after at most Len(str)
\* iterations.
C19_CursorAdvances ==
    [][ pc = "parse"
        => \/ pc' = "idle" /\ result'.status = "error"
           \/ pc' = "parsed" /\ currPos' = currPos /\ str' = str
           \/ /\ str' = str
              /\ currPos < currPos'
              /\ currPos' <= End(str)
              /\ pc' = (IF currPos' = End(str) THEN "parsed" ELSE "parse") ]_vars

\* C19 witness: "@param x " has been parsed: the name ends at the last
\* character before the space that ends the comment, the description is
\* empty and the cursor is at the end.
C19_Witness ==
    /\ pc = "parsed"
    /\ str = Line(tagParam, <<"x", SP>>)
    /\ currPos = End(str)
    /\ handler.m_params = << << <<"x">>, <<>> >> >>

\* C20: m_lastTag is None only while no iteration of parseDocString has
\* completed on the handler (every buffer is still empty); an iteration
\* that does not throw leaves it other than None, and no step of any call
\* sets it back to None.  So the parser is never past the start of a
\* comment with m_lastTag = None: the branches of lines 466-470 (return at
\* the end of the text, skip the line) are never taken.
C20_LastTagNoneOnlyWhenFresh ==
    /\ [](handler.m_lastTag = "None" => \A b \in Buffers : handler[b] = <<>>)
    /\ []((pc = "parse" /\ handler.m_lastTag = "None") => currPos = 1)
    /\ [][ /\ handler.m_lastTag # "None" => handler'.m_lastTag # "None"
           /\ (pc = "parse" /\ pc' # "idle") => handler'.m_lastTag # "None"
         ]_vars

\* C20 witness: the first call on the handler, userDocumentation of a
\* function commented "a\nb", is at the second line: the first line made
\* the last tag Notice, and the line is read as a continuation.
C20_Witness ==
    /\ pc = "parse"
    /\ type = "NatspecUser"
    /\ str = <<"a", NL, "b">>
    /\ currPos = 3
    /\ NoTagAhead(str, currPos)
    /\ handler.m_lastTag = "Notice"
    /\ handler.m_notice = <<"a">>

====
